---- MODULE Spec2Model ----
(***************************************************************************)
(* Generalized tic-tac-toe (m x m board, k in a row) and its game-tree     *)
(* search: minimax, minimax_ab, search (depth limited), _order_moves and   *)
(* the node-counting Instrument.                                           *)
(*                                                                         *)
(* Representation.  A state of game.py is (board, m, k); m and k are the   *)
(* definitions M and K, so a state is its board, a tuple of M rows of M    *)
(* cells, a cell being "X", "O" or None.  An action (r, c) is the    *)
(* pair <<r, c>>, 0-based as in the source.                                *)
(*                                                                         *)
(* Numbers.  float('inf') is PosInf, float('-inf') is NegInf.  evaluate()  *)
(* returns total / windows; the totals are integers and windows is         *)
(* Scale, so every value handled by search() is a multiple of 1/Scale and  *)
(* is represented by its numerator: evaluate(s) is the integer total and   *)
(* float(u) is u * Scale.  minimax and minimax_ab return the plain         *)
(* integers -1, 0, 1.                                                      *)
(***************************************************************************)
EXTENDS Integers, Sequences, FiniteSets, TLC

M == 3
K == 3

PosInf == 1000000
NegInf == 0 - PosInf

None == "None"
NoAction == <<>>

Max(a, b) == IF a >= b THEN a ELSE b
Min(a, b) == IF a <= b THEN a ELSE b

----------------------------------------------------------------------------
(* game.py *)

initial_state == [r \in 1..M |-> [c \in 1..M |-> None]]

Cells == {<<r, c>> : r \in 0..(M-1), c \in 0..(M-1)}

At(board, a) == board[a[1] + 1][a[2] + 1]

filled(board) == Cardinality({a \in Cells : At(board, a) # None})

player(board) == IF filled(board) % 2 = 0 THEN "X" ELSE "O"

\* natural (lexicographic) order of actions
ActLess(a, b) == a[1] < b[1] \/ (a[1] = b[1] /\ a[2] < b[2])

\* the cell of rank i (0-based) in lexicographic order
CellAt(i) == <<i \div M, i % M>>

RECURSIVE ActionsFrom(_, _)
ActionsFrom(board, i) ==
    IF i >= M * M THEN <<>>
    ELSE IF At(board, CellAt(i)) = None
         THEN <<CellAt(i)>> \o ActionsFrom(board, i + 1)
         ELSE ActionsFrom(board, i + 1)

actions(board) == ActionsFrom(board, 0)

\* result() raises ValueError on an out-of-bounds or occupied cell
Legal(board, a) == a \in Cells /\ At(board, a) = None

result(board, a) ==
    [board EXCEPT ![a[1] + 1][a[2] + 1] = player(board)]

\* the k-windows in the order winner() and evaluate() scan them
RowWindows ==
    [i \in 1..(M * (M - K + 1)) |->
        LET r == (i - 1) \div (M - K + 1)
            s == (i - 1) % (M - K + 1)
        IN  [j \in 1..K |-> <<r, s + j - 1>>]]

ColWindows ==
    [i \in 1..(M * (M - K + 1)) |->
        LET c == (i - 1) \div (M - K + 1)
            s == (i - 1) % (M - K + 1)
        IN  [j \in 1..K |-> <<s + j - 1, c>>]]

\* windows of the diagonal starting at (r0, c0) going down-right
RECURSIVE DiagFrom(_, _, _)
DiagFrom(r0, c0, s) ==
    IF r0 + s + K - 1 > M - 1 \/ c0 + s + K - 1 > M - 1 THEN <<>>
    ELSE <<[j \in 1..K |-> <<r0 + s + j - 1, c0 + s + j - 1>>]>>
         \o DiagFrom(r0, c0, s + 1)

\* windows of the anti-diagonal starting at (r0, c0) going down-left
RECURSIVE AntiFrom(_, _, _)
AntiFrom(r0, c0, s) ==
    IF r0 + s + K - 1 > M - 1 \/ c0 - s - K + 1 < 0 THEN <<>>
    ELSE <<[j \in 1..K |-> <<r0 + s + j - 1, c0 - s - j + 1>>]>>
         \o AntiFrom(r0, c0, s + 1)

RECURSIVE DiagWindowsTop(_)
DiagWindowsTop(c) ==
    IF c >= M THEN <<>> ELSE DiagFrom(0, c, 0) \o DiagWindowsTop(c + 1)

RECURSIVE DiagWindowsLeft(_)
DiagWindowsLeft(r) ==
    IF r >= M THEN <<>> ELSE DiagFrom(r, 0, 0) \o DiagWindowsLeft(r + 1)

RECURSIVE AntiWindowsTop(_)
AntiWindowsTop(c) ==
    IF c >= M THEN <<>> ELSE AntiFrom(0, c, 0) \o AntiWindowsTop(c + 1)

RECURSIVE AntiWindowsRight(_)
AntiWindowsRight(r) ==
    IF r >= M THEN <<>> ELSE AntiFrom(r, M - 1, 0) \o AntiWindowsRight(r + 1)

Windows ==
    RowWindows \o ColWindows
    \o DiagWindowsTop(0) \o DiagWindowsLeft(1)
    \o AntiWindowsTop(0) \o AntiWindowsRight(1)

_window_winner(board, w) ==
    IF \A j \in 1..K : At(board, w[j]) = "X" THEN "X"
    ELSE IF \A j \in 1..K : At(board, w[j]) = "O" THEN "O"
    ELSE None

RECURSIVE WinnerFrom(_, _)
WinnerFrom(board, i) ==
    IF i > Len(Windows) THEN None
    ELSE LET wres == _window_winner(board, Windows[i])
         IN  IF wres # None THEN wres ELSE WinnerFrom(board, i + 1)

winner(board) == WinnerFrom(board, 1)

\* terminal() without its scan for an empty cell
terminal_won_only(board) == winner(board) # None

terminal(board) ==
    IF winner(board) # None THEN TRUE
    ELSE \A a \in Cells : At(board, a) # None

\* utility() returns None for a non-terminal state: the integer UNone,
\* which is none of -1, 0, 1
UNone == 99

utility(board) ==
    LET w == winner(board)
    IN  IF w = "X" THEN 1
        ELSE IF w = "O" THEN 0 - 1
        ELSE IF terminal(board) THEN 0
        ELSE UNone

----------------------------------------------------------------------------
(* heuristic.py *)

Count(board, w, mark) == Cardinality({j \in 1..K : At(board, w[j]) = mark})

RECURSIVE Pow10(_)
Pow10(n) == IF n = 0 THEN 1 ELSE 10 * Pow10(n - 1)

window_value(board, w) ==
    LET x_count == Count(board, w, "X")
        o_count == Count(board, w, "O")
    IN  IF x_count > 0 /\ o_count > 0 THEN 0
        ELSE IF x_count > 0 THEN Pow10(x_count)
        ELSE IF o_count > 0 THEN 0 - Pow10(o_count)
        ELSE 0

RECURSIVE TotalFrom(_, _)
TotalFrom(board, i) ==
    IF i > Len(Windows) THEN 0
    ELSE window_value(board, Windows[i]) + TotalFrom(board, i + 1)

\* the denominator of every value evaluate() returns
Scale == Len(Windows)

\* evaluate(state, perspective), as the numerator of total / windows
evaluate(board, perspective) ==
    IF Scale = 0 THEN 0
    ELSE IF perspective = "X" THEN TotalFrom(board, 1)
    ELSE 0 - TotalFrom(board, 1)

----------------------------------------------------------------------------
(* search.py: _order_moves *)

center == <<M \div 2, M \div 2>>

OnEdge(x) == x = 0 \/ x = M - 1

base(a) ==
    IF a = center THEN 0
    ELSE IF OnEdge(a[1]) /\ OnEdge(a[2]) THEN 1
    ELSE IF OnEdge(a[1]) \/ OnEdge(a[2]) THEN 2
    ELSE 3

\* priority() with the probe not negated: the lower score sorts first
priority_probe_ascending(board, use_heuristic_probe, a) ==
    <<base(a),
      IF use_heuristic_probe THEN evaluate(result(board, a), "X") ELSE 0,
      a>>

\* the sort key (base, -probe, a); result() cannot raise on a legal move
priority(board, use_heuristic_probe, a) ==
    <<base(a),
      IF use_heuristic_probe THEN 0 - evaluate(result(board, a), "X") ELSE 0,
      a>>

KeyLess(k1, k2) ==
    \/ k1[1] < k2[1]
    \/ k1[1] = k2[1] /\ k1[2] < k2[2]
    \/ k1[1] = k2[1] /\ k1[2] = k2[2] /\ ActLess(k1[3], k2[3])

\* moves.sort(key=priority): the keys are pairwise different, so the
\* sorted list is the same for every sorting algorithm; insertion sort
RECURSIVE InsertKey(_, _)
InsertKey(sorted, k) ==
    IF sorted = <<>> THEN <<k>>
    ELSE IF KeyLess(k, Head(sorted)) THEN <<k>> \o sorted
    ELSE <<Head(sorted)>> \o InsertKey(Tail(sorted), k)

RECURSIVE SortKeys(_)
SortKeys(keys) ==
    IF keys = <<>> THEN <<>>
    ELSE InsertKey(SortKeys(Tail(keys)), Head(keys))

RECURSIVE KeysFrom(_, _, _, _)
KeysFrom(board, use_heuristic_probe, moves, i) ==
    IF i > Len(moves) THEN <<>>
    ELSE <<priority(board, use_heuristic_probe, moves[i])>>
         \o KeysFrom(board, use_heuristic_probe, moves, i + 1)

RECURSIVE Thirds(_, _)
Thirds(keys, i) ==
    IF i > Len(keys) THEN <<>> ELSE <<keys[i][3]>> \o Thirds(keys, i + 1)

_order_moves(board, use_heuristic_probe) ==
    Thirds(SortKeys(KeysFrom(board, use_heuristic_probe, actions(board), 1)), 1)

----------------------------------------------------------------------------
(* Tables.  utility, evaluate and _order_moves are pure and the searches   *)
(* call them on the same boards again and again, so the searches read them *)
(* from a table computed once.  A table is a tree of records, one level    *)
(* per cell in lexicographic order and one field per mark; its leaf for a  *)
(* board is what the functions return on that board.  Leaves are computed  *)
(* for the boards play can produce: X has as many marks as O, or one more. *)

Put(board, i, mark) ==
    [board EXCEPT ![CellAt(i)[1] + 1][CellAt(i)[2] + 1] = mark]

\* the entry of a board in a table: one branch per cell, row by row
LookupRow(table, row) == table[row[1]][row[2]][row[3]]

Lookup(table, board) ==
    LookupRow(LookupRow(LookupRow(table, board[1]), board[2]), board[3])

\* x and o count the marks on the cells before cell i
RECURSIVE PureTable(_, _, _, _)
PureTable(board, i, x, o) ==
    IF x - o > 1 + (M * M - i) \/ o - x > M * M - i
    THEN <<>>
    ELSE IF i >= M * M
    THEN [u |-> utility(board),
          e |-> evaluate(board, "X"),
          plain |-> _order_moves(board, FALSE),
          probed |-> _order_moves(board, TRUE)]
    ELSE [None |-> PureTable(Put(board, i, None), i + 1, x, o),
          X |-> PureTable(Put(board, i, "X"), i + 1, x + 1, o),
          O |-> PureTable(Put(board, i, "O"), i + 1, x, o + 1)]

PureTables == PureTable(initial_state, 0, 0, 0)

\* utility(board)
UtilityOf(board) == Lookup(PureTables, board).u

\* evaluate(board, perspective)
EvaluateOf(board, perspective) ==
    IF perspective = "X" THEN Lookup(PureTables, board).e
    ELSE 0 - Lookup(PureTables, board).e

\* _order_moves(board, use_heuristic_probe)
OrderOf(board, use_heuristic_probe) ==
    IF use_heuristic_probe THEN Lookup(PureTables, board).probed
    ELSE Lookup(PureTables, board).plain

----------------------------------------------------------------------------
(* search.py: minimax.  max_value and min_value return                     *)
(* [v |-> value, n |-> ticks made].  They too are pure functions of the    *)
(* board, and plain minimax calls them on the same board along every path  *)
(* that reaches it, so their results are tabulated: one table per number   *)
(* of marks, the table of the boards with k marks being computed by the    *)
(* bodies of max_value and min_value from the table of the boards with     *)
(* k + 1 marks, where their recursive calls land.  The leaf for a board is *)
(* the result of max_value on it when X is to move, of min_value when O is.*)

RECURSIVE mm_max_loop(_, _, _, _, _, _), mm_min_loop(_, _, _, _, _, _)

\* for a in actions(s): v = max(v, min_value(result(s, a)))
mm_max_loop(s, moves, i, v, n, sub) ==
    IF i > Len(moves) THEN [v |-> v, n |-> n]
    ELSE LET c == Lookup(sub, result(s, moves[i]))
         IN  mm_max_loop(s, moves, i + 1, Max(v, c.v), n + c.n, sub)

\* for a in actions(s): v = min(v, max_value(result(s, a)))
mm_min_loop(s, moves, i, v, n, sub) ==
    IF i > Len(moves) THEN [v |-> v, n |-> n]
    ELSE LET c == Lookup(sub, result(s, moves[i]))
         IN  mm_min_loop(s, moves, i + 1, Min(v, c.v), n + c.n, sub)

\* sub: the table of the calls on the successors of s
mm_max_value(s, sub) ==
    LET u == utility(s)
    IN  IF u # UNone THEN [v |-> u, n |-> 1]
        ELSE mm_max_loop(s, actions(s), 1, NegInf, 1, sub)

mm_min_value(s, sub) ==
    LET u == utility(s)
    IN  IF u # UNone THEN [v |-> u, n |-> 1]
        ELSE mm_min_loop(s, actions(s), 1, PosInf, 1, sub)

\* the table of the boards with k marks, (k + 1) \div 2 of them X's;
\* x and o count the marks on the cells before cell i
RECURSIVE MMTable(_, _, _, _, _, _)
MMTable(board, i, x, o, k, sub) ==
    IF \/ x > (k + 1) \div 2
       \/ o > k \div 2
       \/ x + o + (M * M - i) < k
    THEN <<>>
    ELSE IF i >= M * M
    THEN IF player(board) = "X" THEN mm_max_value(board, sub)
         ELSE mm_min_value(board, sub)
    ELSE [None |-> MMTable(Put(board, i, None), i + 1, x, o, k, sub),
          X |-> MMTable(Put(board, i, "X"), i + 1, x + 1, o, k, sub),
          O |-> MMTable(Put(board, i, "O"), i + 1, x, o + 1, k, sub)]

\* the tables for 0, 1, ..., M * M marks, built from the full boards down;
\* above holds the tables for k + 1, ..., M * M marks
MMTablesWith(k, above) ==
    <<MMTable(initial_state, 0, 0, 0, k,
              IF above = <<>> THEN <<>> ELSE above[1])>> \o above

\* (the test of Len(above) makes the tables be built in this order)
RECURSIVE MMTablesFrom(_, _)
MMTablesFrom(k, above) ==
    IF Len(above) # M * M - k THEN <<>>
    ELSE IF k = 0 THEN MMTablesWith(k, above)
    ELSE MMTablesFrom(k - 1, MMTablesWith(k, above))

MMTables == MMTablesFrom(M * M, <<>>)

\* min_value(s) when O is to move in s, max_value(s) when X is
mm_value(s) == Lookup(MMTables[filled(s) + 1], s)

\* "val > best_val or (val == best_val and
\*                      (best_action is None or a < best_action))"
BetterMax(val, a, best_val, best_action) ==
    \/ val > best_val
    \/ val = best_val /\ (best_action = NoAction \/ ActLess(a, best_action))

BetterMin(val, a, best_val, best_action) ==
    \/ val < best_val
    \/ val = best_val /\ (best_action = NoAction \/ ActLess(a, best_action))

\* The top-level loops return [v |-> best_val, a |-> best_action,
\* n |-> instrument.node_count, trace |-> the pairs <<a, val>> of the loop,
\* in the order explored].  Each loop is two operators: the one named
\* ..._after is the rest of the loop's body once the call on the successor
\* has returned c.
RECURSIVE mm_top_max(_, _, _, _, _, _, _), mm_top_min(_, _, _, _, _, _, _)

\* "if val > best_val or (...): best_val, best_action = val, a"
mm_top_max_after(s, moves, i, best_val, best_action, n, trace, c) ==
    LET better == BetterMax(c.v, moves[i], best_val, best_action)
    IN  mm_top_max(s, moves, i + 1,
                   IF better THEN c.v ELSE best_val,
                   IF better THEN moves[i] ELSE best_action,
                   n + c.n, Append(trace, <<moves[i], c.v>>))

\* "for a in acts: val = min_value(result(state, a))"
mm_top_max(s, moves, i, best_val, best_action, n, trace) ==
    IF i > Len(moves)
    THEN [v |-> best_val, a |-> best_action, n |-> n, trace |-> trace]
    ELSE mm_top_max_after(s, moves, i, best_val, best_action, n, trace,
                          mm_value(result(s, moves[i])))

mm_top_min_after(s, moves, i, best_val, best_action, n, trace, c) ==
    LET better == BetterMin(c.v, moves[i], best_val, best_action)
    IN  mm_top_min(s, moves, i + 1,
                   IF better THEN c.v ELSE best_val,
                   IF better THEN moves[i] ELSE best_action,
                   n + c.n, Append(trace, <<moves[i], c.v>>))

mm_top_min(s, moves, i, best_val, best_action, n, trace) ==
    IF i > Len(moves)
    THEN [v |-> best_val, a |-> best_action, n |-> n, trace |-> trace]
    ELSE mm_top_min_after(s, moves, i, best_val, best_action, n, trace,
                          mm_value(result(s, moves[i])))

\* minimax(state, instrument): instrument.reset(), then the loop
minimax(s) ==
    IF player(s) = "X"
    THEN mm_top_max(s, actions(s), 1, NegInf, NoAction, 0, <<>>)
    ELSE mm_top_min(s, actions(s), 1, PosInf, NoAction, 0, <<>>)

----------------------------------------------------------------------------
(* search.py: minimax_ab.  A call of max_value/min_value returns           *)
(* [v |-> value, n |-> ticks made].  The loop "for a in moves" is unrolled *)
(* over the M * M moves a position can have: iter is one round of it and   *)
(* a1, a2, ... are its variables [v, alpha, beta, n, done] after each      *)
(* round, done once the loop has returned.                                 *)

RECURSIVE ab_max_value(_, _, _, _), ab_min_value(_, _, _, _)

\* "v = max(v, ...); if v >= beta: return v; alpha = max(alpha, v)"
ab_max_after(acc, c) ==
    [v |-> Max(acc.v, c.v),
     alpha |-> Max(acc.alpha, Max(acc.v, c.v)),
     beta |-> acc.beta,
     n |-> acc.n + c.n,
     done |-> Max(acc.v, c.v) >= acc.beta]

ab_max_value(s, use_ordering, alpha, beta) ==
    LET u == UtilityOf(s)
        iter(moves, i, acc, min_value(_, _, _, _)) ==
            IF acc.done \/ i > Len(moves) THEN acc
            ELSE ab_max_after(acc, min_value(result(s, moves[i]), use_ordering, acc.alpha, acc.beta))
        loop(moves, min_value(_, _, _, _)) ==
            LET a0 == [v |-> NegInf, alpha |-> alpha, beta |-> beta, n |-> 1, done |-> FALSE]
                a1 == iter(moves, 1, a0, min_value)
                a2 == iter(moves, 2, a1, min_value)
                a3 == iter(moves, 3, a2, min_value)
                a4 == iter(moves, 4, a3, min_value)
                a5 == iter(moves, 5, a4, min_value)
                a6 == iter(moves, 6, a5, min_value)
                a7 == iter(moves, 7, a6, min_value)
                a8 == iter(moves, 8, a7, min_value)
                a9 == iter(moves, 9, a8, min_value)
            IN  <<a1, a2, a3, a4, a5, a6, a7, a8, a9>>[M * M]
    IN  IF u # UNone THEN [v |-> u, n |-> 1]
        ELSE loop(OrderOf(s, use_ordering), ab_min_value)

\* min_value cutting off on "v <= beta" in place of "v <= alpha"
ab_min_after_beta_cut(acc, c) ==
    [v |-> Min(acc.v, c.v),
     alpha |-> acc.alpha,
     beta |-> Min(acc.beta, Min(acc.v, c.v)),
     n |-> acc.n + c.n,
     done |-> Min(acc.v, c.v) <= acc.beta]

\* "v = min(v, ...); if v <= alpha: return v; beta = min(beta, v)"
ab_min_after(acc, c) ==
    [v |-> Min(acc.v, c.v),
     alpha |-> acc.alpha,
     beta |-> Min(acc.beta, Min(acc.v, c.v)),
     n |-> acc.n + c.n,
     done |-> Min(acc.v, c.v) <= acc.alpha]

ab_min_value(s, use_ordering, alpha, beta) ==
    LET u == UtilityOf(s)
        iter(moves, i, acc, max_value(_, _, _, _)) ==
            IF acc.done \/ i > Len(moves) THEN acc
            ELSE ab_min_after(acc, max_value(result(s, moves[i]), use_ordering, acc.alpha, acc.beta))
        loop(moves, max_value(_, _, _, _)) ==
            LET a0 == [v |-> PosInf, alpha |-> alpha, beta |-> beta, n |-> 1, done |-> FALSE]
                a1 == iter(moves, 1, a0, max_value)
                a2 == iter(moves, 2, a1, max_value)
                a3 == iter(moves, 3, a2, max_value)
                a4 == iter(moves, 4, a3, max_value)
                a5 == iter(moves, 5, a4, max_value)
                a6 == iter(moves, 6, a5, max_value)
                a7 == iter(moves, 7, a6, max_value)
                a8 == iter(moves, 8, a7, max_value)
                a9 == iter(moves, 9, a8, max_value)
            IN  <<a1, a2, a3, a4, a5, a6, a7, a8, a9>>[M * M]
    IN  IF u # UNone THEN [v |-> u, n |-> 1]
        ELSE loop(OrderOf(s, use_ordering), ab_max_value)

\* the top-level loop's variables after a move a of value c.v:
\* "if val > best_val or (...): best_val, best_action = val, a";
\* "alpha = max(alpha, best_val)"
ab_top_max_after(acc, a, c) ==
    LET better == BetterMax(c.v, a, acc.v, acc.a)
    IN  [v |-> IF better THEN c.v ELSE acc.v,
         a |-> IF better THEN a ELSE acc.a,
         alpha |-> Max(acc.alpha, IF better THEN c.v ELSE acc.v),
         beta |-> acc.beta,
         n |-> acc.n + c.n,
         trace |-> Append(acc.trace, <<a, c.v>>)]

\* n is the instrument's count when the loop starts
ab_top_max(s, use_ordering, moves, n) ==
    LET iter(i, acc, min_value(_, _, _, _)) ==
            IF i > Len(moves) THEN acc
            ELSE ab_top_max_after(acc, moves[i], min_value(result(s, moves[i]), use_ordering, acc.alpha, acc.beta))
        loop(min_value(_, _, _, _)) ==
            LET a0 == [v |-> NegInf, a |-> NoAction, alpha |-> NegInf, beta |-> PosInf, n |-> n, trace |-> <<>>]
                a1 == iter(1, a0, min_value)
                a2 == iter(2, a1, min_value)
                a3 == iter(3, a2, min_value)
                a4 == iter(4, a3, min_value)
                a5 == iter(5, a4, min_value)
                a6 == iter(6, a5, min_value)
                a7 == iter(7, a6, min_value)
                a8 == iter(8, a7, min_value)
                a9 == iter(9, a8, min_value)
            IN  <<a1, a2, a3, a4, a5, a6, a7, a8, a9>>[M * M]
    IN  loop(ab_min_value)

\* "if val < best_val or (...): best_val, best_action = val, a";
\* "beta = min(beta, best_val)"
ab_top_min_after(acc, a, c) ==
    LET better == BetterMin(c.v, a, acc.v, acc.a)
    IN  [v |-> IF better THEN c.v ELSE acc.v,
         a |-> IF better THEN a ELSE acc.a,
         alpha |-> acc.alpha,
         beta |-> Min(acc.beta, IF better THEN c.v ELSE acc.v),
         n |-> acc.n + c.n,
         trace |-> Append(acc.trace, <<a, c.v>>)]

ab_top_min(s, use_ordering, moves, n) ==
    LET iter(i, acc, max_value(_, _, _, _)) ==
            IF i > Len(moves) THEN acc
            ELSE ab_top_min_after(acc, moves[i], max_value(result(s, moves[i]), use_ordering, acc.alpha, acc.beta))
        loop(max_value(_, _, _, _)) ==
            LET a0 == [v |-> PosInf, a |-> NoAction, alpha |-> NegInf, beta |-> PosInf, n |-> n, trace |-> <<>>]
                a1 == iter(1, a0, max_value)
                a2 == iter(2, a1, max_value)
                a3 == iter(3, a2, max_value)
                a4 == iter(4, a3, max_value)
                a5 == iter(5, a4, max_value)
                a6 == iter(6, a5, max_value)
                a7 == iter(7, a6, max_value)
                a8 == iter(8, a7, max_value)
                a9 == iter(9, a8, max_value)
            IN  <<a1, a2, a3, a4, a5, a6, a7, a8, a9>>[M * M]
    IN  loop(ab_max_value)

\* minimax_ab() ticking the instrument for the root as well
minimax_ab_root_tick(s, use_ordering) ==
    IF player(s) = "X"
    THEN ab_top_max(s, use_ordering, OrderOf(s, use_ordering), 1)
    ELSE ab_top_min(s, use_ordering, OrderOf(s, use_ordering), 1)

\* minimax_ab(state, instrument, use_ordering): instrument.reset(), then
\* the loop
minimax_ab(s, use_ordering) ==
    IF player(s) = "X"
    THEN ab_top_max(s, use_ordering, OrderOf(s, use_ordering), 0)
    ELSE ab_top_min(s, use_ordering, OrderOf(s, use_ordering), 0)

----------------------------------------------------------------------------
(* search.py: search.  eval_fn is "X" or "O": the function                 *)
(* s -> EvaluateOf(s, eval_fn); the default eval_fn=evaluate is "X".       *)
(* Values are numerators over Scale: float(u) is u * Scale.  A call of     *)
(* max_value/min_value returns [v |-> value, n |-> ticks made, e |-> calls *)
(* of eval_fn made].                                                       *)

RECURSIVE s_max_value(_, _, _, _, _, _), s_min_value(_, _, _, _, _, _)

s_max_after(acc, c) ==
    [v |-> Max(acc.v, c.v),
     alpha |-> Max(acc.alpha, Max(acc.v, c.v)),
     beta |-> acc.beta,
     n |-> acc.n + c.n,
     e |-> acc.e + c.e,
     done |-> Max(acc.v, c.v) >= acc.beta]

s_max_value(s, eval_fn, use_ordering, alpha, beta, d) ==
    LET u == UtilityOf(s)
        iter(moves, i, acc, min_value(_, _, _, _, _, _)) ==
            IF acc.done \/ i > Len(moves) THEN acc
            ELSE s_max_after(acc, min_value(result(s, moves[i]), eval_fn, use_ordering, acc.alpha, acc.beta, d - 1))
        loop(moves, min_value(_, _, _, _, _, _)) ==
            LET a0 == [v |-> NegInf, alpha |-> alpha, beta |-> beta, n |-> 1, e |-> 0, done |-> FALSE]
                a1 == iter(moves, 1, a0, min_value)
                a2 == iter(moves, 2, a1, min_value)
                a3 == iter(moves, 3, a2, min_value)
                a4 == iter(moves, 4, a3, min_value)
                a5 == iter(moves, 5, a4, min_value)
                a6 == iter(moves, 6, a5, min_value)
                a7 == iter(moves, 7, a6, min_value)
                a8 == iter(moves, 8, a7, min_value)
                a9 == iter(moves, 9, a8, min_value)
            IN  <<a1, a2, a3, a4, a5, a6, a7, a8, a9>>[M * M]
    IN  IF u # UNone THEN [v |-> u * Scale, n |-> 1, e |-> 0]
        ELSE IF d = 0 THEN [v |-> EvaluateOf(s, eval_fn), n |-> 1, e |-> 1]
        ELSE loop(OrderOf(s, use_ordering), s_min_value)

s_min_after(acc, c) ==
    [v |-> Min(acc.v, c.v),
     alpha |-> acc.alpha,
     beta |-> Min(acc.beta, Min(acc.v, c.v)),
     n |-> acc.n + c.n,
     e |-> acc.e + c.e,
     done |-> Min(acc.v, c.v) <= acc.alpha]

\* min_value testing the depth before the utility:
\* "if d == 0: return eval_fn(s)" ahead of "if u is not None"
s_min_value_depth_first(s, eval_fn, use_ordering, alpha, beta, d) ==
    LET u == UtilityOf(s)
        iter(moves, i, acc, max_value(_, _, _, _, _, _)) ==
            IF acc.done \/ i > Len(moves) THEN acc
            ELSE s_min_after(acc, max_value(result(s, moves[i]), eval_fn, use_ordering, acc.alpha, acc.beta, d - 1))
        loop(moves, max_value(_, _, _, _, _, _)) ==
            LET a0 == [v |-> PosInf, alpha |-> alpha, beta |-> beta, n |-> 1, e |-> 0, done |-> FALSE]
                a1 == iter(moves, 1, a0, max_value)
                a2 == iter(moves, 2, a1, max_value)
                a3 == iter(moves, 3, a2, max_value)
                a4 == iter(moves, 4, a3, max_value)
                a5 == iter(moves, 5, a4, max_value)
                a6 == iter(moves, 6, a5, max_value)
                a7 == iter(moves, 7, a6, max_value)
                a8 == iter(moves, 8, a7, max_value)
                a9 == iter(moves, 9, a8, max_value)
            IN  <<a1, a2, a3, a4, a5, a6, a7, a8, a9>>[M * M]
    IN  IF d = 0 THEN [v |-> EvaluateOf(s, eval_fn), n |-> 1, e |-> 1]
        ELSE IF u # UNone THEN [v |-> u * Scale, n |-> 1, e |-> 0]
        ELSE loop(OrderOf(s, use_ordering), s_max_value)

s_min_value(s, eval_fn, use_ordering, alpha, beta, d) ==
    LET u == UtilityOf(s)
        iter(moves, i, acc, max_value(_, _, _, _, _, _)) ==
            IF acc.done \/ i > Len(moves) THEN acc
            ELSE s_min_after(acc, max_value(result(s, moves[i]), eval_fn, use_ordering, acc.alpha, acc.beta, d - 1))
        loop(moves, max_value(_, _, _, _, _, _)) ==
            LET a0 == [v |-> PosInf, alpha |-> alpha, beta |-> beta, n |-> 1, e |-> 0, done |-> FALSE]
                a1 == iter(moves, 1, a0, max_value)
                a2 == iter(moves, 2, a1, max_value)
                a3 == iter(moves, 3, a2, max_value)
                a4 == iter(moves, 4, a3, max_value)
                a5 == iter(moves, 5, a4, max_value)
                a6 == iter(moves, 6, a5, max_value)
                a7 == iter(moves, 7, a6, max_value)
                a8 == iter(moves, 8, a7, max_value)
                a9 == iter(moves, 9, a8, max_value)
            IN  <<a1, a2, a3, a4, a5, a6, a7, a8, a9>>[M * M]
    IN  IF u # UNone THEN [v |-> u * Scale, n |-> 1, e |-> 0]
        ELSE IF d = 0 THEN [v |-> EvaluateOf(s, eval_fn), n |-> 1, e |-> 1]
        ELSE loop(OrderOf(s, use_ordering), s_max_value)

s_top_max_after(acc, a, c) ==
    LET better == BetterMax(c.v, a, acc.v, acc.a)
    IN  [v |-> IF better THEN c.v ELSE acc.v,
         a |-> IF better THEN a ELSE acc.a,
         alpha |-> Max(acc.alpha, IF better THEN c.v ELSE acc.v),
         beta |-> acc.beta,
         n |-> acc.n + c.n,
         e |-> acc.e + c.e,
         trace |-> Append(acc.trace, <<a, c.v>>)]

s_top_max(s, depth, eval_fn, use_ordering, moves) ==
    LET iter(i, acc, min_value(_, _, _, _, _, _)) ==
            IF i > Len(moves) THEN acc
            ELSE s_top_max_after(acc, moves[i], min_value(result(s, moves[i]), eval_fn, use_ordering, acc.alpha, acc.beta, depth - 1))
        loop(min_value(_, _, _, _, _, _)) ==
            LET a0 == [v |-> NegInf, a |-> NoAction, alpha |-> NegInf, beta |-> PosInf, n |-> 0, e |-> 0, trace |-> <<>>]
                a1 == iter(1, a0, min_value)
                a2 == iter(2, a1, min_value)
                a3 == iter(3, a2, min_value)
                a4 == iter(4, a3, min_value)
                a5 == iter(5, a4, min_value)
                a6 == iter(6, a5, min_value)
                a7 == iter(7, a6, min_value)
                a8 == iter(8, a7, min_value)
                a9 == iter(9, a8, min_value)
            IN  <<a1, a2, a3, a4, a5, a6, a7, a8, a9>>[M * M]
    IN  loop(s_min_value)

s_top_min_after(acc, a, c) ==
    LET better == BetterMin(c.v, a, acc.v, acc.a)
    IN  [v |-> IF better THEN c.v ELSE acc.v,
         a |-> IF better THEN a ELSE acc.a,
         alpha |-> acc.alpha,
         beta |-> Min(acc.beta, IF better THEN c.v ELSE acc.v),
         n |-> acc.n + c.n,
         e |-> acc.e + c.e,
         trace |-> Append(acc.trace, <<a, c.v>>)]

s_top_min(s, depth, eval_fn, use_ordering, moves) ==
    LET iter(i, acc, max_value(_, _, _, _, _, _)) ==
            IF i > Len(moves) THEN acc
            ELSE s_top_min_after(acc, moves[i], max_value(result(s, moves[i]), eval_fn, use_ordering, acc.alpha, acc.beta, depth - 1))
        loop(max_value(_, _, _, _, _, _)) ==
            LET a0 == [v |-> PosInf, a |-> NoAction, alpha |-> NegInf, beta |-> PosInf, n |-> 0, e |-> 0, trace |-> <<>>]
                a1 == iter(1, a0, max_value)
                a2 == iter(2, a1, max_value)
                a3 == iter(3, a2, max_value)
                a4 == iter(4, a3, max_value)
                a5 == iter(5, a4, max_value)
                a6 == iter(6, a5, max_value)
                a7 == iter(7, a6, max_value)
                a8 == iter(8, a7, max_value)
                a9 == iter(9, a8, max_value)
            IN  <<a1, a2, a3, a4, a5, a6, a7, a8, a9>>[M * M]
    IN  loop(s_max_value)

\* search(state, depth, eval_fn, instrument, use_ordering)
search(s, depth, eval_fn, use_ordering) ==
    IF player(s) = "X"
    THEN s_top_max(s, depth, eval_fn, use_ordering, OrderOf(s, use_ordering))
    ELSE s_top_min(s, depth, eval_fn, use_ordering, OrderOf(s, use_ordering))

----------------------------------------------------------------------------
(* The program as a state machine.                                         *)
(*   state       the position on the board                                 *)
(*   pc          where the program is: <<"idle">> between two calls, or    *)
(*               the search that has been entered and has not returned,    *)
(*               <<"minimax">>, <<"minimax_ab", use_ordering>> or          *)
(*               <<"search", depth, eval_fn, use_ordering>>                *)
(*   call        the last call that returned since state was reached and   *)
(*               since a search was entered: <<"none">>, one of the        *)
(*               searches as in pc, <<"_order_moves", use_heuristic_probe>>*)
(*               or <<"reset">>                                            *)
(*   ret         what the last search or _order_moves returned:            *)
(*               <<value, action>> for a search,                           *)
(*               the list of moves for _order_moves                        *)
(*   node_count  Instrument.node_count                                     *)
(*   trace       the pairs <<action, val>> of the last search's top-level  *)
(*               loop                                                      *)
(*   eval_calls  the calls of eval_fn the last search made                 *)
(* A search is two steps.  Its entry is "instrument.reset()", the first    *)
(* statement of minimax, minimax_ab and search; the rest, up to the        *)
(* return, reads nothing but state and the arguments and ticks the         *)
(* instrument.  A search can be entered on any state, whatever was called  *)
(* before, as benchmark.py calls three of them in a row on one state;      *)
(* nothing else runs until it has returned.  Instrument.tick() is called   *)
(* by the searches alone and is part of their second step.                 *)

\* the depths search() is called with are 0..MaxDepth
MaxDepth == 2

\* the eval_fn arguments search() is called with: the default, evaluate
EvalFns == {"X"}

\* a full-depth search is given the number of empty cells plus 0..MaxSlack
MaxSlack == 1

\* the eval_fn arguments of a full-depth search: evaluate and its negation
AnyEvalFns == {"X", "O"}

VARIABLES state, pc, call, ret, node_count, trace, eval_calls

vars == <<state, pc, call, ret, node_count, trace, eval_calls>>

Idle == <<"idle">>

Init ==
    /\ state = initial_state
    /\ pc = Idle
    /\ call = <<"none">>
    /\ ret = <<>>
    /\ node_count = 0
    /\ trace = <<>>
    /\ eval_calls = 0

\* state = result(state, a), as play.py and the tests advance the game;
\* result() touches no Instrument
Move(a) ==
    /\ pc = Idle
    /\ Legal(state, a)
    /\ state' = result(state, a)
    /\ call' = <<"none">>
    /\ ret' = <<>>
    /\ trace' = <<>>
    /\ eval_calls' = 0
    /\ UNCHANGED <<pc, node_count>>

\* Instrument.reset(), as benchmark.py calls it between two searches
Reset ==
    /\ pc = Idle
    /\ call' = <<"reset">>
    /\ node_count' = 0
    /\ UNCHANGED <<state, pc, ret, trace, eval_calls>>

\* the entry of the search c: "instrument.reset()"
Enter(c) ==
    /\ pc = Idle
    /\ pc' = c
    /\ node_count' = 0
    /\ call' = <<"none">>
    /\ ret' = <<>>
    /\ trace' = <<>>
    /\ eval_calls' = 0
    /\ UNCHANGED state

\* the search in pc returns r
Returned(r) ==
    /\ pc' = Idle
    /\ call' = pc
    /\ ret' = <<r.v, r.a>>
    /\ node_count' = r.n
    /\ trace' = r.trace
    /\ UNCHANGED state

CallMinimax == Enter(<<"minimax">>)

ReturnMinimax ==
    /\ pc = <<"minimax">>
    /\ Returned(minimax(state))
    /\ eval_calls' = 0

CallMinimaxAB(use_ordering) == Enter(<<"minimax_ab", use_ordering>>)

ReturnMinimaxAB ==
    /\ pc[1] = "minimax_ab"
    /\ Returned(minimax_ab(state, pc[2]))
    /\ eval_calls' = 0

SearchReturned(r) ==
    /\ Returned(r)
    /\ eval_calls' = r.e

CallSearch(depth, eval_fn, use_ordering) ==
    Enter(<<"search", depth, eval_fn, use_ordering>>)

\* search() with a depth of the empty cells of state and slack more
CallSearchFull(slack, eval_fn, use_ordering) ==
    CallSearch(M * M - filled(state) + slack, eval_fn, use_ordering)

ReturnSearch ==
    /\ pc[1] = "search"
    /\ SearchReturned(search(state, pc[2], pc[3], pc[4]))

CallOrderMoves(use_heuristic_probe) ==
    /\ pc = Idle
    /\ call' = <<"_order_moves", use_heuristic_probe>>
    /\ ret' = _order_moves(state, use_heuristic_probe)
    /\ UNCHANGED <<state, pc, node_count, trace, eval_calls>>

\* the exhaustive searches, on an Instrument of the caller
Next ==
    \/ \E a \in Cells : Move(a)
    \/ CallMinimax
    \/ ReturnMinimax
    \/ \E use_ordering \in BOOLEAN : CallMinimaxAB(use_ordering)
    \/ ReturnMinimaxAB
    \/ Reset

Spec == Init /\ [][Next]_vars

\* the depth-limited search
NextSearch ==
    \/ \E a \in Cells : Move(a)
    \/ \E depth \in 0..MaxDepth, eval_fn \in EvalFns, use_ordering \in BOOLEAN :
          CallSearch(depth, eval_fn, use_ordering)
    \/ ReturnSearch

SpecSearch == Init /\ [][NextSearch]_vars

\* the search deep enough to reach the end of every game
NextFull ==
    \/ \E a \in Cells : Move(a)
    \/ \E slack \in 0..MaxSlack, eval_fn \in AnyEvalFns, use_ordering \in BOOLEAN :
          CallSearchFull(slack, eval_fn, use_ordering)
    \/ ReturnSearch

SpecFull == Init /\ [][NextFull]_vars

\* the rules of the game and the move orderer
NextGame ==
    \/ \E a \in Cells : Move(a)
    \/ \E use_heuristic_probe \in BOOLEAN : CallOrderMoves(use_heuristic_probe)

SpecGame == Init /\ [][NextGame]_vars

----------------------------------------------------------------------------
(* What the claims speak of, stated from the rules of the game rather than *)
(* from the code above.                                                    *)

Full(board) == \A a \in Cells : At(board, a) # None

Directions == {<<0, 1>>, <<1, 0>>, <<1, 1>>, <<1, 0 - 1>>}

\* the K cells from a in direction d
Line(a, d) == [j \in 1..K |-> <<a[1] + (j - 1) * d[1], a[2] + (j - 1) * d[2]>>]

Lines == {Line(a, d) : a \in Cells, d \in Directions}

BoardLines == {l \in Lines : \A j \in 1..K : l[j] \in Cells}

\* mark has k in a row
HasLine(board, mark) ==
    \E l \in BoardLines : \A j \in 1..K : At(board, l[j]) = mark

\* a line holds K - 1 X marks and its last cell is empty
XThreat(board) ==
    \E l \in BoardLines :
        /\ Cardinality({j \in 1..K : At(board, l[j]) = "X"}) = K - 1
        /\ Cardinality({j \in 1..K : At(board, l[j]) = None}) = 1

NonTerminal(board) ==
    ~Full(board) /\ ~HasLine(board, "X") /\ ~HasLine(board, "O")

IsSearch == call[1] \in {"minimax", "minimax_ab", "search"}

\* the exact value of a position, from the tables of plain minimax
ExactValue(board) == mm_value(board).v

----------------------------------------------------------------------------
\* C1: on every reachable state, minimax_ab with either ordering flag
\* returns the value minimax returns.
C1_SameValue ==
    call[1] = "minimax_ab" => ret[1] = minimax(state).v

\* a position X wins, its value found by a search that pruned
C1_Witness ==
    /\ call[1] = "minimax_ab"
    /\ NonTerminal(state)
    /\ ret[1] = 1
    /\ node_count < minimax(state).n

\* C2: on every non-terminal state the action minimax_ab returns is optimal:
\* the exact minimax value of result(state, action) is the value of state.
C2_ActionOptimal ==
    (call[1] = "minimax_ab" /\ NonTerminal(state))
        => ExactValue(result(state, ret[2])) = minimax(state).v

\* C3: a search called on a terminal state returns (utility(state), None)
\* and leaves node_count = 1.
C3_TerminalShortCircuit ==
    (IsSearch /\ ~NonTerminal(state))
        => /\ ret = <<IF call[1] = "search" THEN utility(state) * Scale
                      ELSE utility(state),
                      NoAction>>
           /\ node_count = 1

\* the best eval_fn score of a successor, and the smallest action reaching it
BestScore(board, eval_fn) ==
    LET scores == {evaluate(result(board, a), eval_fn) :
                      a \in {c \in Cells : Legal(board, c)}}
    IN  IF player(board) = "X"
        THEN CHOOSE x \in scores : \A y \in scores : y <= x
        ELSE CHOOSE x \in scores : \A y \in scores : x <= y

Greedy(board, eval_fn) ==
    LET best == {a \in Cells :
                    /\ Legal(board, a)
                    /\ evaluate(result(board, a), eval_fn)
                           = BestScore(board, eval_fn)}
    IN  CHOOSE a \in best : \A b \in best : a = b \/ ActLess(a, b)

\* C4: on a non-terminal state, search with depth 0 returns the one-ply
\* greedy action (best eval_fn score of the successor, smallest action on
\* ties) and visits nothing below the successors.
C4_DepthZeroGreedy ==
    (call[1] = "search" /\ call[2] = 0 /\ NonTerminal(state))
        => /\ ret[2] = Greedy(state, call[3])
           /\ node_count = Len(actions(state))

\* C5: when X is to move and a line holds two X marks and an empty cell,
\* every search variant (search with the default heuristic at depth >= 1
\* included) returns value +1 and a cell that completes an X line.
C5_TakesTheWin ==
    (/\ IsSearch
     /\ call[1] = "search" => (call[2] >= 1 /\ call[3] = "X")
     /\ NonTerminal(state)
     /\ player(state) = "X"
     /\ XThreat(state))
        => /\ ret[1] = IF call[1] = "search" THEN Scale ELSE 1
           /\ HasLine(result(state, ret[2]), "X")

\* C6: on every reachable state, minimax_ab with either ordering flag leaves
\* a node_count no greater than the one minimax leaves.
C6_NoMoreNodes ==
    call[1] = "minimax_ab" => node_count <= minimax(state).n

\* a search that pruned: strictly fewer nodes than minimax
C6_Witness ==
    /\ call[1] = "minimax_ab"
    /\ NonTerminal(state)
    /\ node_count > 0
    /\ node_count < minimax(state).n

\* C7: on the empty board, minimax_ab with use_ordering=True leaves a
\* node_count no greater than with use_ordering=False.
C7_OrderingHelps ==
    (state = initial_state /\ call = <<"minimax_ab", TRUE>>)
        => node_count <= minimax_ab(initial_state, FALSE).n

\* the moves of test_draw
DrawMoves ==
    <<<<0, 0>>, <<0, 1>>, <<0, 2>>, <<1, 1>>, <<1, 0>>, <<1, 2>>,
      <<2, 1>>, <<2, 0>>, <<2, 2>>>>

\* the board after moves[i], moves[i + 1], ...; <<>> if result() raises
RECURSIVE Replay(_, _, _)
Replay(board, moves, i) ==
    IF i > Len(moves) THEN board
    ELSE IF ~Legal(board, moves[i]) THEN <<>>
    ELSE Replay(result(board, moves[i]), moves, i + 1)

\* C8: a reachable state whose board is full and holds no k in a row is
\* terminal with utility 0 and winner None; the moves of test_draw never
\* raise and end in such a state.
C8_FullBoardDraw ==
    /\ (Full(state) /\ ~HasLine(state, "X") /\ ~HasLine(state, "O"))
          => (terminal(state) /\ utility(state) = 0 /\ winner(state) = None)
    /\ Replay(initial_state, DrawMoves, 1) # <<>>
    /\ state = Replay(initial_state, DrawMoves, 1)
          => (Full(state) /\ ~HasLine(state, "X") /\ ~HasLine(state, "O"))

\* the board test_draw ends in is reached, and is a draw
C8_Witness ==
    /\ state = Replay(initial_state, DrawMoves, 1)
    /\ terminal(state)
    /\ utility(state) = 0
    /\ winner(state) = None

\* the first action of the top-level loop whose val is v
FirstReaching(tr, v) ==
    tr[CHOOSE i \in 1..Len(tr) :
          tr[i][2] = v /\ \A j \in 1..(i - 1) : tr[j][2] # v][1]

\* C9: in the top-level loop of minimax_ab a candidate whose value equals
\* the best value never replaces the chosen action: the action returned is
\* the first one, in the order explored, whose evaluation reached the value
\* returned; the order explored is that of actions() when use_ordering is
\* False.
C9_FirstTieWins ==
    (call[1] \in {"minimax_ab", "search"} /\ trace # <<>>)
        => /\ ret[2] = FirstReaching(trace, ret[1])
           /\ call[Len(call)] = FALSE
                 => [i \in 1..Len(trace) |-> trace[i][1]] = actions(state)

\* the sort key the claim gives: band, -probe, action
Band(a) ==
    LET onRow == a[1] \in {0, M - 1}
        onCol == a[2] \in {0, M - 1}
    IN  IF a = <<M \div 2, M \div 2>> THEN 0
        ELSE IF onRow /\ onCol THEN 1
        ELSE IF onRow # onCol THEN 2
        ELSE 3

Probe(board, flag, a) == IF flag THEN evaluate(result(board, a), "X") ELSE 0

Before(board, flag, a, b) ==
    \/ Band(a) < Band(b)
    \/ Band(a) = Band(b) /\ Probe(board, flag, a) > Probe(board, flag, b)
    \/ /\ Band(a) = Band(b)
       /\ Probe(board, flag, a) = Probe(board, flag, b)
       /\ ActLess(a, b)

\* C10: _order_moves(state, flag) is a permutation of actions(state), in
\* ascending order of the key (band, -probe, action).
C10_OrderedPermutation ==
    call[1] = "_order_moves"
        => /\ Len(ret) = Len(actions(state))
           /\ {ret[i] : i \in 1..Len(ret)}
                 = {a \in Cells : Legal(state, a)}
           /\ \A i \in 1..(Len(ret) - 1) :
                 Before(state, call[2], ret[i], ret[i + 1])

\* the probe decides: two moves of one band are returned against their
\* natural order
C10_Witness ==
    /\ call = <<"_order_moves", TRUE>>
    /\ \E i \in 1..(Len(ret) - 1) :
          /\ Band(ret[i]) = Band(ret[i + 1])
          /\ ActLess(ret[i + 1], ret[i])

----------------------------------------------------------------------------
\* C11: on every non-terminal reachable state, search() with a depth of at
\* least the number of empty cells calls eval_fn at no cutoff and returns
\* the value minimax() returns, as a float, whatever the ordering flag and
\* the eval_fn.
C11_FullDepthExact ==
    (call[1] = "search" /\ NonTerminal(state)
                        /\ call[2] >= M * M - filled(state))
        => /\ eval_calls = 0
           /\ ret[1] = minimax(state).v * Scale

\* a won position with seven empty cells, searched one ply deeper than the
\* game can last, with the negated heuristic as eval_fn
C11_Witness ==
    /\ NonTerminal(state)
    /\ filled(state) = 2
    /\ call = <<"search", M * M - filled(state) + 1, "O", TRUE>>
    /\ eval_calls = 0
    /\ ret[1] = Scale
====
